---- MODULE Spec2Model ----
(***************************************************************************)
(* Model of evaluate_anesthesia_realistic, the clinical evaluator of       *)
(* anesthesia_machine_UI.py, and of the default parameter set the shell    *)
(* loads.                                                                  *)
(*                                                                         *)
(* Numbers.  The evaluator takes floats; the model takes the values of a   *)
(* decimal grid and keeps them as integers:                                *)
(*   weight_kg, fio2, airway_pressure_cmh2o, tidal_volume_ml,              *)
(*   resp_rate_bpm            in units (kg, %, cmH2O, mL, bpm);            *)
(*   fresh_gas_flow_lpm, agent_percent   in TENTHS (0.3 L/min is 3,        *)
(*   4.0 % is 40), and the thresholds compared with them likewise;         *)
(*   mv_lpm                   in THOUSANDTHS of L/min, i.e. the numerator  *)
(*   tidal_volume_ml * resp_rate_bpm before the division by 1000.0;        *)
(*   vt_ml_per_kg             as the quotient num/den, compared by         *)
(*   cross-multiplication (den > 0).                                       *)
(* On this grid every comparison of the code is decided exactly as the     *)
(* double arithmetic decides it.  NaN and the infinities are not values    *)
(* of the grid.                                                            *)
(***************************************************************************)
EXTENDS Integers, Sequences, FiniteSets, TLC

VARIABLES params, pc, result

vars == <<params, pc, result>>

(***************************************************************************)
(* Text.  A message is a record: the rule that wrote it (its fixed text),  *)
(* the agent name interpolated in it, and the values interpolated in it,   *)
(* each with the way Python prints it.                                     *)
(***************************************************************************)

\* f"{x}" of a float of the grid: one decimal, kept in tenths
FloatText(tenths) == [kind |-> "float", tenths |-> tenths]

\* f"{None}" prints the word None
NoneText == [kind |-> "None", tenths |-> 0]

\* dict.get(key): the value, or None when the key is absent
DictGet(d, key) == IF key \in DOMAIN d THEN FloatText(d[key]) ELSE NoneText

\* dict.get(key, default)
DictGetDefault(d, key, default) == IF key \in DOMAIN d THEN d[key] ELSE default

\* round-half-even of num/den to an integer (num >= 0, den > 0); the grid
\* has no tie that is not exact in binary
RoundDiv(num, den) ==
    LET q == num \div den
        r == num % den
    IN  IF 2 * r < den THEN q
        ELSE IF 2 * r > den THEN q + 1
        ELSE IF q % 2 = 0 THEN q ELSE q + 1

\* f"{x:.1f}" of the quotient num/den, in tenths
Fixed1(num, den) == [kind |-> "float", tenths |-> RoundDiv(10 * num, den)]

\* round(x, 2) of the quotient num/den, in hundredths
Round2(num, den) == RoundDiv(100 * num, den)

Msg(rule, agent, shown) == [rule |-> rule, agent |-> agent, shown |-> shown]

Plain(rule) == Msg(rule, "", <<>>)

When(cond, msg) == IF cond THEN <<msg>> ELSE <<>>

(***************************************************************************)
(* Validation, lines 28-44.                                                *)
(***************************************************************************)
\* mutant: validation that returns at the first violated check
ValidationAlarmsFirstOnly(p) ==
    IF p.weight_kg <= 0 THEN <<Plain("Invalid weight")>>
    ELSE IF p.fio2 < 0 \/ p.fio2 > 100 THEN <<Plain("Invalid FiO2")>>
    ELSE IF p.fresh_gas_flow_lpm < 0 THEN <<Plain("Invalid fresh gas flow")>>
    ELSE IF p.agent_percent < 0 THEN <<Plain("Invalid agent concentration")>>
    ELSE IF p.resp_rate_bpm < 0 THEN <<Plain("Invalid respiratory rate")>>
    ELSE IF p.tidal_volume_ml < 0 THEN <<Plain("Invalid tidal volume")>>
    ELSE <<>>

\* mutant: validation that lets a weight of zero through (< for <=)
ValidationAlarmsZeroWeightPasses(p) ==
    When(p.weight_kg < 0, Plain("Invalid weight"))
    \o When(p.fio2 < 0 \/ p.fio2 > 100, Plain("Invalid FiO2"))
    \o When(p.fresh_gas_flow_lpm < 0, Plain("Invalid fresh gas flow"))
    \o When(p.agent_percent < 0, Plain("Invalid agent concentration"))
    \o When(p.resp_rate_bpm < 0, Plain("Invalid respiratory rate"))
    \o When(p.tidal_volume_ml < 0, Plain("Invalid tidal volume"))

ValidationAlarms(p) ==
    When(p.weight_kg <= 0, Plain("Invalid weight"))
    \o When(p.fio2 < 0 \/ p.fio2 > 100, Plain("Invalid FiO2"))
    \o When(p.fresh_gas_flow_lpm < 0, Plain("Invalid fresh gas flow"))
    \o When(p.agent_percent < 0, Plain("Invalid agent concentration"))
    \o When(p.resp_rate_bpm < 0, Plain("Invalid respiratory rate"))
    \o When(p.tidal_volume_ml < 0, Plain("Invalid tidal volume"))

(***************************************************************************)
(* Oxygen safety, lines 46-55.                                             *)
(***************************************************************************)
\* mutant: the guard alarm replaces the tier alarm instead of joining it
OxygenAlarmsGuardReplaces(p) ==
    IF p.hypoxic_guard_enabled /\ p.fio2 < 25 THEN <<Plain("Hypoxic Guard")>>
    ELSE IF p.fio2 < 21 THEN <<Plain("FiO2 < 21% not physiologically valid")>>
    ELSE IF p.fio2 < 30 THEN <<Plain("HYPOXIC MIXTURE RISK")>>
    ELSE <<>>

OxygenAlarms(p) ==
    (IF p.fio2 < 21 THEN <<Plain("FiO2 < 21% not physiologically valid")>>
     ELSE IF p.fio2 < 30 THEN <<Plain("HYPOXIC MIXTURE RISK")>>
     ELSE <<>>)
    \o When(p.hypoxic_guard_enabled /\ p.fio2 < 25, Plain("Hypoxic Guard"))

OxygenWarnings(p) ==
    IF p.fio2 < 21 THEN <<>>
    ELSE IF p.fio2 < 30 THEN <<>>
    ELSE IF p.fio2 < 40 THEN <<Plain("Low FiO2 (30-39%)")>>
    ELSE <<>>

(***************************************************************************)
(* Fresh gas flow, lines 57-66 (tenths of L/min and of %).                 *)
(***************************************************************************)
FGFAlarms(p) ==
    IF p.fresh_gas_flow_lpm = 0 /\ p.agent_percent > 0
    THEN <<Plain("Agent set > 0% but FGF = 0")>>
    ELSE IF p.fresh_gas_flow_lpm <= 3 /\ p.agent_percent > 0
    THEN <<Plain("FGF very low with volatile agent")>>
    ELSE <<>>

\* mutant: the very-low-FGF warning at 0.5 L/min too (<= for <)
FGFWarningsInclusive(p) ==
    When(p.fresh_gas_flow_lpm <= 5, Plain("Very low FGF (<0.5 L/min)"))
    \o When(p.fresh_gas_flow_lpm > 100, Plain("High FGF (>10 L/min)"))

FGFWarnings(p) ==
    When(p.fresh_gas_flow_lpm < 5, Plain("Very low FGF (<0.5 L/min)"))
    \o When(p.fresh_gas_flow_lpm > 100, Plain("High FGF (>10 L/min)"))

(***************************************************************************)
(* Agent limits, lines 68-75 (tenths of %).                                *)
(***************************************************************************)
agent_alarm_max == [Sevoflurane |-> 40, Isoflurane |-> 30, Desflurane |-> 100]

agent_warn_high == [Sevoflurane |-> 30, Isoflurane |-> 25, Desflurane |-> 80]

AgentAlarms(p) ==
    When(p.agent_percent > DictGetDefault(agent_alarm_max, p.agent, 50),
         Msg("concentration too high", p.agent,
             <<DictGet(agent_alarm_max, p.agent)>>))

\* mutant: the warning tested with if instead of elif
AgentWarningsNoElif(p) ==
    When(p.agent_percent > DictGetDefault(agent_warn_high, p.agent, 30),
         Msg("concentration high", p.agent,
             <<DictGet(agent_warn_high, p.agent)>>))

AgentWarnings(p) ==
    IF p.agent_percent > DictGetDefault(agent_alarm_max, p.agent, 50)
    THEN <<>>
    ELSE When(p.agent_percent > DictGetDefault(agent_warn_high, p.agent, 30),
              Msg("concentration high", p.agent,
                  <<DictGet(agent_warn_high, p.agent)>>))

(***************************************************************************)
(* Ventilation computations, lines 77-87.                                  *)
(***************************************************************************)
\* tidal_volume_ml * resp_rate_bpm, the numerator of mv_lpm (/ 1000.0)
mv_lpm(p) == p.tidal_volume_ml * p.resp_rate_bpm

\* a / b of two floats: ZeroDivisionError when b is zero
Divide(a, b) == [num |-> a, den |-> b, raised |-> b = 0]

vt_ml_per_kg(p) ==
    IF p.weight_kg > 0 THEN Divide(p.tidal_volume_ml, p.weight_kg)
    ELSE [num |-> 0, den |-> 1, raised |-> FALSE]

\* tenths of mL/kg
vt_rec_low(p) == IF p.patient_type = "adult" THEN 60 ELSE 50

vt_rec_high(p) == IF p.patient_type = "adult" THEN 80 ELSE 80

\* thousandths of L/min
mv_alarm_low(p) == IF p.patient_type = "adult" THEN 3000 ELSE 800

mv_warn_low(p) == IF p.patient_type = "adult" THEN 4000 ELSE 1200

\* vt < tenths/10 and vt > tenths/10
VtBelow(vt, tenths) == 10 * vt.num < tenths * vt.den

VtAbove(vt, tenths) == 10 * vt.num > tenths * vt.den

VtText(p) == Fixed1(vt_ml_per_kg(p).num, vt_ml_per_kg(p).den)

TargetText(p) == <<FloatText(vt_rec_low(p)), FloatText(vt_rec_high(p))>>

(***************************************************************************)
(* VT alarms and warnings, lines 89-98.                                    *)
(***************************************************************************)
VTAlarms(p) ==
    When(VtBelow(vt_ml_per_kg(p), 40), Msg("VT too low", "", <<VtText(p)>>))
    \o When(VtAbove(vt_ml_per_kg(p), 100), Msg("VT too high", "", <<VtText(p)>>))

VTWarnings(p) ==
    When(~VtBelow(vt_ml_per_kg(p), 40) /\ VtBelow(vt_ml_per_kg(p), vt_rec_low(p)),
         Msg("VT below recommended", "", <<VtText(p)>> \o TargetText(p)))
    \o When(~VtAbove(vt_ml_per_kg(p), 100) /\ VtAbove(vt_ml_per_kg(p), vt_rec_high(p)),
            Msg("VT above recommended", "", <<VtText(p)>> \o TargetText(p)))

(***************************************************************************)
(* RR safety, lines 100-106.                                               *)
(***************************************************************************)
RRAlarms(p) == When(p.resp_rate_bpm < 6, Plain("APNEA / severe bradypnea"))

\* mutant: the low-RR warning tested with if instead of elif
RRWarningsNoElif(p) ==
    When(p.resp_rate_bpm < 8, Plain("Low RR (6-7 bpm)"))
    \o When(p.resp_rate_bpm > 35, Plain("High RR (>35 bpm)"))

\* mutant: the low-RR warning below 7 instead of below 8
RRWarningsBelow7(p) ==
    IF p.resp_rate_bpm < 6 THEN <<>>
    ELSE IF p.resp_rate_bpm < 7 THEN <<Plain("Low RR (6-7 bpm)")>>
    ELSE IF p.resp_rate_bpm > 35 THEN <<Plain("High RR (>35 bpm)")>>
    ELSE <<>>

RRWarnings(p) ==
    IF p.resp_rate_bpm < 6 THEN <<>>
    ELSE IF p.resp_rate_bpm < 8 THEN <<Plain("Low RR (6-7 bpm)")>>
    ELSE IF p.resp_rate_bpm > 35 THEN <<Plain("High RR (>35 bpm)")>>
    ELSE <<>>

(***************************************************************************)
(* Minute ventilation adequacy, lines 108-112.                             *)
(***************************************************************************)
MvText(p) == Fixed1(mv_lpm(p), 1000)

MVAlarms(p) ==
    When(mv_lpm(p) < mv_alarm_low(p), Msg("Low minute ventilation", "", <<MvText(p)>>))

MVWarnings(p) ==
    When(~(mv_lpm(p) < mv_alarm_low(p)) /\ mv_lpm(p) < mv_warn_low(p),
         Msg("Borderline MV", "", <<MvText(p)>>))

(***************************************************************************)
(* Airway pressure and disconnection, lines 114-122.                       *)
(***************************************************************************)
PressureAlarms(p) ==
    When(p.airway_pressure_cmh2o > 40, Plain("HIGH AIRWAY PRESSURE > 40 cmH2O"))

PressureWarnings(p) ==
    When(~(p.airway_pressure_cmh2o > 40) /\ p.airway_pressure_cmh2o > 30,
         Plain("Elevated airway pressure (30-40 cmH2O)"))

\* mutant: the disconnection rule compares MV with the alarm-low value
DisconnectionAlarmsAlarmLow(p) ==
    When(p.airway_pressure_cmh2o < 5 /\ mv_lpm(p) < mv_alarm_low(p),
         Plain("Possible DISCONNECTION/LEAK"))

DisconnectionAlarms(p) ==
    When(p.airway_pressure_cmh2o < 5 /\ mv_lpm(p) < mv_warn_low(p),
         Plain("Possible DISCONNECTION/LEAK"))

(***************************************************************************)
(* The lists after the last rule, in the order the rules append.           *)
(***************************************************************************)
ClinicalAlarms(p) ==
    OxygenAlarms(p) \o FGFAlarms(p) \o AgentAlarms(p) \o VTAlarms(p)
    \o RRAlarms(p) \o MVAlarms(p) \o PressureAlarms(p) \o DisconnectionAlarms(p)

ClinicalWarnings(p) ==
    OxygenWarnings(p) \o FGFWarnings(p) \o AgentWarnings(p) \o VTWarnings(p)
    \o RRWarnings(p) \o MVWarnings(p) \o PressureWarnings(p)

\* mutant: warnings looked at before alarms
StatusWarningsFirst(alarms, warnings) ==
    IF warnings # <<>> THEN "WARNING"
    ELSE IF alarms # <<>> THEN "ALARM"
    ELSE "RUNNING"

\* line 124
Status(alarms, warnings) ==
    IF alarms # <<>> THEN "ALARM"
    ELSE IF warnings # <<>> THEN "WARNING"
    ELSE "RUNNING"

\* lines 126-130; round(mv_lpm, 2) and round(vt_ml_per_kg, 2) in hundredths
Computed(p) ==
    [MV_Lmin |-> Round2(mv_lpm(p), 1000),
     VT_mLkg |-> Round2(vt_ml_per_kg(p).num, vt_ml_per_kg(p).den),
     VT_target_mLkg |-> TargetText(p)]

\* the empty dict of line 44
EmptyDict == <<>>

\* the call raises instead of returning: the only operation of the function
\* that can is the division of line 79
Raises(p) == ValidationAlarms(p) = <<>> /\ vt_ml_per_kg(p).raised

\* the value returned, lines 43-44 and 124-132
evaluate_anesthesia_realistic(p) ==
    IF ValidationAlarms(p) # <<>>
    THEN [status |-> "ALARM", alarms |-> ValidationAlarms(p),
          warnings |-> <<>>, computed |-> EmptyDict]
    ELSE [status |-> Status(ClinicalAlarms(p), ClinicalWarnings(p)),
          alarms |-> ClinicalAlarms(p),
          warnings |-> ClinicalWarnings(p),
          computed |-> Computed(p)]

(***************************************************************************)
(* The inputs.  The rules read disjoint groups of parameters: oxygen       *)
(* (fio2, guard), gas (flow, agent, concentration), ventilation (patient   *)
(* type, weight, tidal volume, rate, pressure).  Each group takes every    *)
(* value of its fine set, on both sides of every threshold, while the      *)
(* other two take a few settings: clean, warning, alarm, invalid.          *)
(***************************************************************************)
TidalSteps == 6

FiO2Values == {-1, 0, 20, 21, 22, 24, 25, 29, 30, 39, 40, 100, 101}

FGFValues == {-1, 0, 3, 4, 5, 100, 101}

AgentNames == {"Sevoflurane", "Isoflurane", "Desflurane", "Halothane"}

AgentPercentValues == {-1, 0, 25, 26, 30, 31, 40, 41, 50, 51, 80, 81, 100, 101, 110}

PatientTypes == {"adult", "pediatric", "neonate"}

WeightValues == {-1, 0, 50, 70}

TidalValues == {-100} \cup {100 * k : k \in 0..TidalSteps}

RespRateValues == {-1, 0, 5, 6, 7, 8, 35, 36}

PressureValues == {3, 5, 30, 31, 40, 41}

OxyFine == [fio2 : FiO2Values, hypoxic_guard_enabled : BOOLEAN]

OxyCoarse ==
    { [fio2 |-> 50, hypoxic_guard_enabled |-> TRUE],
      [fio2 |-> 35, hypoxic_guard_enabled |-> FALSE],
      [fio2 |-> 22, hypoxic_guard_enabled |-> TRUE],
      [fio2 |-> -1, hypoxic_guard_enabled |-> FALSE] }

GasFine ==
    [fresh_gas_flow_lpm : FGFValues, agent : AgentNames,
     agent_percent : AgentPercentValues]

GasCoarse ==
    { [fresh_gas_flow_lpm |-> 40, agent |-> "Sevoflurane", agent_percent |-> 20],
      [fresh_gas_flow_lpm |-> 4, agent |-> "Isoflurane", agent_percent |-> 0],
      [fresh_gas_flow_lpm |-> 0, agent |-> "Halothane", agent_percent |-> 60],
      [fresh_gas_flow_lpm |-> 40, agent |-> "Desflurane", agent_percent |-> -1] }

VentFine ==
    [patient_type : PatientTypes, weight_kg : WeightValues,
     tidal_volume_ml : TidalValues, resp_rate_bpm : RespRateValues,
     airway_pressure_cmh2o : PressureValues]

VentCoarse ==
    { [patient_type |-> "adult", weight_kg |-> 50, tidal_volume_ml |-> 300,
       resp_rate_bpm |-> 14, airway_pressure_cmh2o |-> 18],
      [patient_type |-> "adult", weight_kg |-> 50, tidal_volume_ml |-> 400,
       resp_rate_bpm |-> 36, airway_pressure_cmh2o |-> 18],
      [patient_type |-> "pediatric", weight_kg |-> 50, tidal_volume_ml |-> 100,
       resp_rate_bpm |-> 5, airway_pressure_cmh2o |-> 4],
      [patient_type |-> "adult", weight_kg |-> 0, tidal_volume_ml |-> -100,
       resp_rate_bpm |-> -1, airway_pressure_cmh2o |-> 18] }

Snapshot(o, g, v) ==
    [patient_type |-> v.patient_type,
     weight_kg |-> v.weight_kg,
     fio2 |-> o.fio2,
     fresh_gas_flow_lpm |-> g.fresh_gas_flow_lpm,
     agent |-> g.agent,
     agent_percent |-> g.agent_percent,
     airway_pressure_cmh2o |-> v.airway_pressure_cmh2o,
     tidal_volume_ml |-> v.tidal_volume_ml,
     resp_rate_bpm |-> v.resp_rate_bpm,
     hypoxic_guard_enabled |-> o.hypoxic_guard_enabled]

\* p is one of the inputs
IsInput(p) ==
    \/ \E o \in OxyFine, g \in GasCoarse, v \in VentCoarse : p = Snapshot(o, g, v)
    \/ \E o \in OxyCoarse, g \in GasFine, v \in VentCoarse : p = Snapshot(o, g, v)
    \/ \E o \in OxyCoarse, g \in GasCoarse, v \in VentFine : p = Snapshot(o, g, v)

\* load_defaults, lines 308-318
Defaults ==
    [patient_type |-> "adult", weight_kg |-> 70, fio2 |-> 50,
     fresh_gas_flow_lpm |-> 40, agent |-> "Sevoflurane", agent_percent |-> 20,
     airway_pressure_cmh2o |-> 18, tidal_volume_ml |-> 500,
     resp_rate_bpm |-> 12, hypoxic_guard_enabled |-> TRUE]

\* nothing evaluated yet: the banner reads IDLE and the output is empty
NoResult ==
    [status |-> "IDLE", alarms |-> <<>>, warnings |-> <<>>, computed |-> EmptyDict]

(***************************************************************************)
(* The state machine: a caller holds a parameter snapshot, calls the       *)
(* evaluator once on it, and may load the defaults and call again.         *)
(***************************************************************************)
Init ==
    /\ IsInput(params)
    /\ pc = "idle"
    /\ result = NoResult

\* one call of evaluate_anesthesia_realistic on the snapshot
Evaluate ==
    /\ pc = "idle"
    /\ IF Raises(params)
       THEN pc' = "raised" /\ result' = result
       ELSE pc' = "returned" /\ result' = evaluate_anesthesia_realistic(params)
    /\ UNCHANGED params

\* load_defaults: the default snapshot, the banner back to IDLE, the output
\* cleared
LoadDefaults ==
    /\ params' = Defaults
    /\ pc' = "idle"
    /\ result' = NoResult

Next == Evaluate \/ LoadDefaults

Spec == Init /\ [][Next]_vars

(***************************************************************************)
(* Vocabulary of the properties.                                           *)
(***************************************************************************)
Returned == pc = "returned"

RulesOf(list) == {list[i].rule : i \in DOMAIN list}

Has(list, rule) == rule \in RulesOf(list)

Count(list, rule) == Cardinality({i \in DOMAIN list : list[i].rule = rule})

ValidationOrder ==
    <<"Invalid weight", "Invalid FiO2", "Invalid fresh gas flow",
      "Invalid agent concentration", "Invalid respiratory rate",
      "Invalid tidal volume">>

ValidationRules == {ValidationOrder[i] : i \in DOMAIN ValidationOrder}

Violates(p, rule) ==
    CASE rule = "Invalid weight" -> p.weight_kg <= 0
      [] rule = "Invalid FiO2" -> p.fio2 < 0 \/ p.fio2 > 100
      [] rule = "Invalid fresh gas flow" -> p.fresh_gas_flow_lpm < 0
      [] rule = "Invalid agent concentration" -> p.agent_percent < 0
      [] rule = "Invalid respiratory rate" -> p.resp_rate_bpm < 0
      [] rule = "Invalid tidal volume" -> p.tidal_volume_ml < 0

ViolatedIn(rule) == Violates(params, rule)

PassesValidation == \A rule \in ValidationRules : ~Violates(params, rule)

ComputedKeys == {"MV_Lmin", "VT_mLkg", "VT_target_mLkg"}

\* the rule groups of the evaluator and the messages each can write
Groups == {"oxygen", "fgf", "agent", "vt", "rr", "mv", "pressure"}

GroupRules(g) ==
    CASE g = "oxygen" -> {"FiO2 < 21% not physiologically valid",
                          "HYPOXIC MIXTURE RISK", "Low FiO2 (30-39%)", "Hypoxic Guard"}
      [] g = "fgf" -> {"Agent set > 0% but FGF = 0", "FGF very low with volatile agent",
                       "Very low FGF (<0.5 L/min)", "High FGF (>10 L/min)"}
      [] g = "agent" -> {"concentration too high", "concentration high"}
      [] g = "vt" -> {"VT too low", "VT below recommended", "VT too high",
                      "VT above recommended"}
      [] g = "rr" -> {"APNEA / severe bradypnea", "Low RR (6-7 bpm)", "High RR (>35 bpm)"}
      [] g = "mv" -> {"Low minute ventilation", "Borderline MV"}
      [] g = "pressure" -> {"HIGH AIRWAY PRESSURE > 40 cmH2O",
                            "Elevated airway pressure (30-40 cmH2O)",
                            "Possible DISCONNECTION/LEAK"}

ClinicalRules == UNION {GroupRules(g) : g \in Groups}

Alarmed(g) == RulesOf(result.alarms) \cap GroupRules(g) # {}

Warned(g) == RulesOf(result.warnings) \cap GroupRules(g) # {}

\* the thresholds as the specification's tables give them (tenths of %)
Ceiling(agent) ==
    CASE agent = "Sevoflurane" -> 40
      [] agent = "Isoflurane" -> 30
      [] agent = "Desflurane" -> 100
      [] OTHER -> 50

WarnHigh(agent) ==
    CASE agent = "Sevoflurane" -> 30
      [] agent = "Isoflurane" -> 25
      [] agent = "Desflurane" -> 80
      [] OTHER -> 30

\* thousandths of L/min
MvWarnLow(patient) == IF patient = "adult" THEN 4000 ELSE 1200

MvAlarmLow(patient) == IF patient = "adult" THEN 3000 ELSE 800

\* tenths of mL/kg
VtTargetLow(patient) == IF patient = "adult" THEN 60 ELSE 50

MinuteVolume == params.tidal_volume_ml * params.resp_rate_bpm

IndexOf(list, rule) == CHOOSE i \in DOMAIN list : list[i].rule = rule

(***************************************************************************)
(* C1: the returned status is one of ALARM, WARNING, RUNNING and is        *)
(* decided by the returned lists: ALARM iff alarms is non-empty, WARNING   *)
(* iff alarms is empty and warnings is not, RUNNING iff both are empty.    *)
(***************************************************************************)
C1_StatusFollowsLists ==
    Returned =>
        /\ result.status \in {"ALARM", "WARNING", "RUNNING"}
        /\ result.status = "ALARM" <=> result.alarms # <<>>
        /\ result.status = "WARNING" <=>
               (result.alarms = <<>> /\ result.warnings # <<>>)
        /\ result.status = "RUNNING" <=>
               (result.alarms = <<>> /\ result.warnings = <<>>)

\* a result with both lists populated, where the precedence decides
C1_Witness ==
    /\ Returned
    /\ result.alarms # <<>>
    /\ result.warnings # <<>>
    /\ result.status = "ALARM"

(***************************************************************************)
(* C2: validation gate.  When at least one of the six checks is violated   *)
(* the result is ALARM with empty warnings and empty computed, and alarms  *)
(* holds exactly one validation message per violated check, in the order   *)
(* weight, FiO2, FGF, agent, RR, tidal volume, and no clinical message;    *)
(* when none is violated no validation message appears and computed is     *)
(* populated.                                                              *)
(***************************************************************************)
C2_ValidationGate ==
    Returned =>
        IF \E rule \in ValidationRules : ViolatedIn(rule)
        THEN /\ result.status = "ALARM"
             /\ result.warnings = <<>>
             /\ DOMAIN result.computed = {}
             /\ [i \in DOMAIN result.alarms |-> result.alarms[i].rule]
                    = SelectSeq(ValidationOrder, ViolatedIn)
        ELSE /\ RulesOf(result.alarms) \cap ValidationRules = {}
             /\ RulesOf(result.warnings) \cap ValidationRules = {}
             /\ DOMAIN result.computed = ComputedKeys

\* all six checks violated at once and all six reported
C2_Witness ==
    /\ Returned
    /\ \A rule \in ValidationRules : ViolatedIn(rule)
    /\ Len(result.alarms) = 6

(***************************************************************************)
(* C3: the evaluator is total.  No call ends by raising; every call        *)
(* returns a result with a status, two lists and a computed mapping; and   *)
(* an input with weight <= 0 never reaches the ventilation computation:    *)
(* it is returned by the validation gate, with the weight message first    *)
(* and nothing computed.                                                   *)
(***************************************************************************)
C3_Total ==
    /\ pc # "raised"
    /\ Returned =>
        /\ result.status \in {"ALARM", "WARNING", "RUNNING"}
        /\ DOMAIN result.computed \in {{}, ComputedKeys}
        /\ params.weight_kg <= 0 =>
               /\ result.alarms # <<>>
               /\ result.alarms[1].rule = "Invalid weight"
               /\ RulesOf(result.alarms) \subseteq ValidationRules
               /\ DOMAIN result.computed = {}

\* weight zero with a positive tidal volume: the division would fail
C3_Witness ==
    /\ Returned
    /\ params.weight_kg = 0
    /\ params.tidal_volume_ml > 0
    /\ result.status = "ALARM"

(***************************************************************************)
(* C4 as claimed: for each rule group, if the group wrote a message to     *)
(* alarms it wrote none to warnings.                                       *)
(***************************************************************************)
C4_NoAlarmAndWarningSameGroup ==
    Returned => \A g \in Groups : Alarmed(g) => ~Warned(g)

(***************************************************************************)
(* C4 amended: for each rule group other than fresh gas flow, if the group *)
(* wrote a message to alarms it wrote none to warnings; a fresh-gas-flow   *)
(* alarm always comes with the very-low-FGF warning.                       *)
(***************************************************************************)
C4_Amended ==
    Returned =>
        /\ \A g \in Groups \ {"fgf"} : Alarmed(g) => ~Warned(g)
        /\ Alarmed("fgf") => Has(result.warnings, "Very low FGF (<0.5 L/min)")

\* a fresh-gas-flow alarm next to the very-low-FGF warning, and another
\* group that raised an alarm only
C4_Witness ==
    /\ Returned
    /\ Alarmed("fgf")
    /\ Warned("fgf")
    /\ \E g \in Groups \ {"fgf"} : Alarmed(g)

(***************************************************************************)
(* C5: oxygen rule, for inputs that pass validation.  Exactly one tier:    *)
(* FiO2 < 21 the not-physiologically-valid alarm, 21 <= FiO2 < 30 the      *)
(* hypoxic-mixture-risk alarm, 30 <= FiO2 < 40 the low-FiO2 warning,       *)
(* FiO2 >= 40 no tier message.  The hypoxic-guard alarm is present iff the *)
(* guard is enabled and FiO2 < 25, on top of the tier alarm.  FiO2 = 22    *)
(* gives the hypoxic-mixture-risk alarm and status ALARM.                  *)
(***************************************************************************)
C5_OxygenRule ==
    (Returned /\ PassesValidation) =>
        LET invalid == Count(result.alarms, "FiO2 < 21% not physiologically valid")
            hypoxic == Count(result.alarms, "HYPOXIC MIXTURE RISK")
            low == Count(result.warnings, "Low FiO2 (30-39%)")
            guard == Count(result.alarms, "Hypoxic Guard")
        IN  /\ <<invalid, hypoxic, low>> =
                   (IF params.fio2 < 21 THEN <<1, 0, 0>>
                    ELSE IF params.fio2 < 30 THEN <<0, 1, 0>>
                    ELSE IF params.fio2 < 40 THEN <<0, 0, 1>>
                    ELSE <<0, 0, 0>>)
            /\ guard = (IF params.hypoxic_guard_enabled /\ params.fio2 < 25
                        THEN 1 ELSE 0)
            /\ RulesOf(result.warnings) \cap
                   {"FiO2 < 21% not physiologically valid",
                    "HYPOXIC MIXTURE RISK", "Hypoxic Guard"} = {}
            /\ ~Has(result.alarms, "Low FiO2 (30-39%)")
            /\ params.fio2 = 22 => result.status = "ALARM"

\* FiO2 = 22 with the guard on: tier alarm and guard alarm together
C5_Witness ==
    /\ Returned
    /\ PassesValidation
    /\ params.fio2 = 22
    /\ params.hypoxic_guard_enabled
    /\ Has(result.alarms, "HYPOXIC MIXTURE RISK")
    /\ Has(result.alarms, "Hypoxic Guard")

(***************************************************************************)
(* C6: agent concentration rule, for inputs that pass validation and every *)
(* agent name, with the ceiling and warn-high of the table and 5.0 / 3.0   *)
(* for an unrecognized name: above the ceiling exactly one agent alarm and *)
(* no agent warning; above warn-high up to the ceiling exactly one agent   *)
(* warning and no agent alarm; up to warn-high no agent message.           *)
(***************************************************************************)
C6_AgentRule ==
    (Returned /\ PassesValidation) =>
        LET alarm == Count(result.alarms, "concentration too high")
            warning == Count(result.warnings, "concentration high")
        IN  /\ <<alarm, warning>> =
                   (IF params.agent_percent > Ceiling(params.agent) THEN <<1, 0>>
                    ELSE IF params.agent_percent > WarnHigh(params.agent)
                    THEN <<0, 1>>
                    ELSE <<0, 0>>)
            /\ ~Has(result.warnings, "concentration too high")
            /\ ~Has(result.alarms, "concentration high")

\* an unrecognized agent just above the default ceiling
C6_Witness ==
    /\ Returned
    /\ PassesValidation
    /\ params.agent = "Halothane"
    /\ params.agent_percent = 51
    /\ Has(result.alarms, "concentration too high")

(***************************************************************************)
(* C7: whenever the agent alarm or the agent warning is produced, its      *)
(* message states the threshold the comparison used for that agent,        *)
(* unrecognized names (compared with 5.0 / 3.0) included.                  *)
(***************************************************************************)
C7_MessageStatesThreshold ==
    Returned =>
        /\ \A i \in DOMAIN result.alarms :
               result.alarms[i].rule = "concentration too high" =>
                   result.alarms[i].shown = <<FloatText(Ceiling(params.agent))>>
        /\ \A i \in DOMAIN result.warnings :
               result.warnings[i].rule = "concentration high" =>
                   result.warnings[i].shown = <<FloatText(WarnHigh(params.agent))>>

(***************************************************************************)
(* C8: disconnection rule, for inputs that pass validation.  The           *)
(* disconnection alarm is present iff pressure < 5 and MV is below the     *)
(* warn-low value of the patient type (4.0 adult, 1.2 otherwise); and      *)
(* when pressure < 5 and MV is below the alarm-low value (3.0 adult, 0.8   *)
(* otherwise) the low-MV alarm and the disconnection alarm are both        *)
(* present, the low-MV alarm earlier in the list.                          *)
(***************************************************************************)
C8_DisconnectionRule ==
    (Returned /\ PassesValidation) =>
        /\ Has(result.alarms, "Possible DISCONNECTION/LEAK") <=>
               (/\ params.airway_pressure_cmh2o < 5
                /\ MinuteVolume < MvWarnLow(params.patient_type))
        /\ (/\ params.airway_pressure_cmh2o < 5
            /\ MinuteVolume < MvAlarmLow(params.patient_type)) =>
               /\ Has(result.alarms, "Low minute ventilation")
               /\ Has(result.alarms, "Possible DISCONNECTION/LEAK")
               /\ IndexOf(result.alarms, "Low minute ventilation")
                      < IndexOf(result.alarms, "Possible DISCONNECTION/LEAK")

\* the specification's compound case
C8_Witness ==
    /\ Returned
    /\ params.patient_type = "adult"
    /\ params.weight_kg = 70
    /\ params.airway_pressure_cmh2o = 3
    /\ params.tidal_volume_ml = 200
    /\ params.resp_rate_bpm = 6
    /\ Has(result.alarms, "Low minute ventilation")
    /\ Has(result.alarms, "Possible DISCONNECTION/LEAK")

(***************************************************************************)
(* C9 as claimed: over the respiratory rates 5, 6, 7 the RR rule yields    *)
(* the apnea alarm, then the low-RR warning, then no RR message.           *)
(***************************************************************************)
RRSeverity(res) ==
    IF Has(res.alarms, "APNEA / severe bradypnea") THEN 2
    ELSE IF RulesOf(res.warnings) \cap {"Low RR (6-7 bpm)", "High RR (>35 bpm)"} # {}
    THEN 1
    ELSE 0

RRMessages(res) == (RulesOf(res.alarms) \cup RulesOf(res.warnings)) \cap GroupRules("rr")

C9_AlarmWarningNoneOver567 ==
    (Returned /\ PassesValidation) =>
        /\ params.resp_rate_bpm = 5 =>
               RRMessages(result) = {"APNEA / severe bradypnea"}
        /\ params.resp_rate_bpm = 6 => RRMessages(result) = {"Low RR (6-7 bpm)"}
        /\ params.resp_rate_bpm = 7 => RRMessages(result) = {}

(***************************************************************************)
(* C9 amended: over the respiratory rates 5, 6, 7, 8 the RR rule yields    *)
(* the apnea alarm at 5, the low-RR warning at 6 and at 7, and no RR       *)
(* message at 8; with the other inputs fixed, the severity of the RR       *)
(* outcome never increases as the rate rises within 5..8.                  *)
(***************************************************************************)
C9_Amended ==
    (Returned /\ PassesValidation) =>
        /\ params.resp_rate_bpm = 5 =>
               /\ RRMessages(result) = {"APNEA / severe bradypnea"}
               /\ Has(result.alarms, "APNEA / severe bradypnea")
        /\ params.resp_rate_bpm \in {6, 7} =>
               /\ RRMessages(result) = {"Low RR (6-7 bpm)"}
               /\ Has(result.warnings, "Low RR (6-7 bpm)")
        /\ params.resp_rate_bpm = 8 => RRMessages(result) = {}
        /\ params.resp_rate_bpm \in 5..8 =>
               \A higher \in 5..8 :
                   higher > params.resp_rate_bpm =>
                       RRSeverity(evaluate_anesthesia_realistic(
                           [params EXCEPT !.resp_rate_bpm = higher]))
                           <= RRSeverity(result)

\* a rate of 7 still gives the low-RR warning
C9_Witness ==
    /\ Returned
    /\ PassesValidation
    /\ params.resp_rate_bpm = 7
    /\ Has(result.warnings, "Low RR (6-7 bpm)")

(***************************************************************************)
(* C10: status is RUNNING iff the input passes validation and FiO2 >= 40,  *)
(* 0.5 <= FGF <= 10, agent percent <= the agent's warn-high, VT per kg     *)
(* within the patient type's target range (6.0-8.0 adult, 5.0-8.0          *)
(* otherwise), 8 <= RR <= 35, MV >= the patient type's warn-low, and       *)
(* pressure <= 30; the default parameter set yields RUNNING with empty     *)
(* alarms and warnings.                                                    *)
(***************************************************************************)
InsideSafeBands ==
    /\ PassesValidation
    /\ params.fio2 >= 40
    /\ params.fresh_gas_flow_lpm >= 5
    /\ params.fresh_gas_flow_lpm <= 100
    /\ params.agent_percent <= WarnHigh(params.agent)
    /\ 10 * params.tidal_volume_ml >= VtTargetLow(params.patient_type) * params.weight_kg
    /\ 10 * params.tidal_volume_ml <= 80 * params.weight_kg
    /\ params.resp_rate_bpm >= 8
    /\ params.resp_rate_bpm <= 35
    /\ MinuteVolume >= MvWarnLow(params.patient_type)
    /\ params.airway_pressure_cmh2o <= 30

C10_RunningIffSafeBands ==
    Returned =>
        /\ result.status = "RUNNING" <=> InsideSafeBands
        /\ params = Defaults =>
               /\ result.status = "RUNNING"
               /\ result.alarms = <<>>
               /\ result.warnings = <<>>

\* the defaults, evaluated
C10_Witness ==
    /\ Returned
    /\ params = Defaults
    /\ result.status = "RUNNING"
    /\ result.computed.MV_Lmin = 600
    /\ result.computed.VT_mLkg = 714

====
